---- MODULE Spec2Model ----
(***************************************************************************)
(* Model of transcribe.py (Vimeo Transkript Generator): the registry       *)
(* (read_excel), the checkpoint store (load_progress / save_progress), the *)
(* two phase loops (download_audio, transcribe_audio), the report          *)
(* (export_results) and the orchestration in main, over several runs of    *)
(* the process on one checkpoint file and one audio directory.             *)
(*                                                                         *)
(* Strings that the code parses (the URL cells of the sheet, the ids) are  *)
(* sequences of one-character strings.  Python dicts keyed by id are       *)
(* functions over Keys whose absent keys map to Unset.                     *)
(*                                                                         *)
(* Environment: the process can be killed inside either phase loop, between *)
(* two saves or inside save_progress; save_progress can raise; a phase can *)
(* fail before its loop (import of yt_dlp or faster_whisper, loading of the *)
(* Whisper model); audio files                                             *)
(* are removed by others only while no process runs; a collaborator may    *)
(* raise or return, with or without leaving its file, and never removes a  *)
(* file.  The progress file is only ever written by save_progress, so a    *)
(* parsable file always holds both top-level keys.                         *)
(*                                                                         *)
(* Four specifications: Spec is the pipeline with that environment, on     *)
(* the sheet Sheet; FairSpec is the pipeline without kills and failing     *)
(* saves, with weak fairness on the steps of the running process;          *)
(* PlainSpec is the same without fairness, for up to MaxPlainRuns starts;  *)
(* RegistrySpec reads every sheet of at most MaxRows rows twice.           *)
(***************************************************************************)
EXTENDS Naturals, Sequences, FiniteSets, TLC

(***************************************************************************)
(* Bounds and input domains                                                *)
(***************************************************************************)

\* number of times the process is started on the same checkpoint file
MaxRuns == 2

\* the longest sheet (in data rows) the registry check reads
MaxRows == 2

\* number of times the process is started when nobody kills it
MaxPlainRuns == 3

\* exception messages of the collaborators (all shorter than the 200
\* characters that str(ex)[:200] keeps)
ExMsgs == {"timeout"}

\* what the transform collaborator can return: text and rounded duration
TransformOutputs == { [text |-> "hallo", dur |-> "12.5"],
                      [text |-> "welt",  dur |-> "7.0"] }

(***************************************************************************)
(* The worklist: the URL cells of the sheet, rows 2 .. max_row             *)
(***************************************************************************)

None == << >>

Url9q   == <<"v","i","m","e","o",".","c","o","m","/","9","?","s">>
Url9    == <<" ","v","i","m","e","o",".","c","o","m","/","9">>
Url10   == <<"v","i","m","e","o",".","c","o","m","/","1","0">>
UrlCaps == <<"V","i","m","e","o",".","c","o","m","/","7">>
UrlElse == <<"y","t",".","b","e","/","1">>

\* a cell of one of the text columns (Modul, Bereich, Kategorie, Uebung):
\* empty, or a text
NoCell == [kind |-> "none", text |-> ""]
TextCell(s) == [kind |-> "str", text |-> s]

\* data row r of a sheet with the given link cells: the Order column counts
\* in tens, and every second row has no Modul and an empty Uebung
SheetRow(links, r) ==
    [order     |-> 10 * r,
     modul     |-> IF r % 2 = 1 THEN TextCell("M5") ELSE NoCell,
     bereich   |-> TextCell("Bereich A"),
     kategorie |-> TextCell("Kat"),
     uebung    |-> IF r % 2 = 1 THEN TextCell("Uebung eins") ELSE TextCell(""),
     kurz      |-> links.kurz,
     lang      |-> links.lang]

\* Sheet[k] is row k + 1 of the sheet (row 1 is the header)
Sheet == << SheetRow([kurz |-> Url9q,  lang |-> Url9], 1),
            SheetRow([kurz |-> Url10,  lang |-> UrlCaps], 2),
            SheetRow([kurz |-> None,   lang |-> UrlElse], 3) >>

(***************************************************************************)
(* String helpers                                                          *)
(***************************************************************************)

Digits == {"0","1","2","3","4","5","6","7","8","9"}

DigitVal(c) ==
    CASE c = "0" -> 0 [] c = "1" -> 1 [] c = "2" -> 2 [] c = "3" -> 3
      [] c = "4" -> 4 [] c = "5" -> 5 [] c = "6" -> 6 [] c = "7" -> 7
      [] c = "8" -> 8 [] c = "9" -> 9

\* str.lower() on the characters the sheet uses
LowerChar(c) == IF c = "V" THEN "v" ELSE c

Lower(s) == [k \in 1..Len(s) |-> LowerChar(s[k])]

\* does t occur in s at position p
OccursAt(s, t, p) ==
    /\ p + Len(t) - 1 <= Len(s)
    /\ \A k \in 1..Len(t) : s[p + k - 1] = t[k]

\* Python's `t in s`
Contains(s, t) == \E p \in 1..Len(s) : OccursAt(s, t, p)

\* str.strip(): drop leading and trailing blanks
Strip(s) ==
    LET nb == {k \in 1..Len(s) : s[k] # " "}
    IN  IF nb = {} THEN << >>
        ELSE LET lo == CHOOSE k \in nb : \A m \in nb : k <= m
                 hi == CHOOSE k \in nb : \A m \in nb : k >= m
             IN  SubSeq(s, lo, hi)

\* str.split("?")[0]
BeforeQuery(s) ==
    LET qs == {k \in 1..Len(s) : s[k] = "?"}
    IN  IF qs = {} THEN s
        ELSE SubSeq(s, 1, (CHOOSE k \in qs : \A m \in qs : k <= m) - 1)

HostMarker == <<"v","i","m","e","o">>
IdPrefix   == <<"v","i","m","e","o",".","c","o","m","/">>

\* re.search(r"vimeo\.com/(\d+)", url): leftmost match, longest digit run
extract_vimeo_id(url) ==
    LET hits == {p \in 1..Len(url) :
                    /\ OccursAt(url, IdPrefix, p)
                    /\ p + Len(IdPrefix) <= Len(url)
                    /\ url[p + Len(IdPrefix)] \in Digits}
    IN  IF url = None \/ hits = {} THEN None
        ELSE LET p     == CHOOSE q \in hits : \A m \in hits : q <= m
                 first == p + Len(IdPrefix)
                 ends  == {e \in first..Len(url) :
                              /\ \A k \in first..e : url[k] \in Digits
                              /\ (e = Len(url) \/ url[e + 1] \notin Digits)}
             IN  SubSeq(url, first, CHOOSE e \in ends : TRUE)

clean_vimeo_url(url) == IF url = None THEN << >> ELSE Strip(BeforeQuery(url))

\* `if video and "vimeo" in str(video).lower()`
IsVimeoCell(cell) == cell # None /\ Contains(Lower(cell), HostMarker)

\* `str(v) if v else ""` on a cell of a text column
CellStr(cell) == IF cell.kind = "none" \/ cell.text = "" THEN "" ELSE cell.text

\* the dict `base` of sheet row k + 1
Base(rows, k) ==
    [row       |-> k + 1,
     order     |-> rows[k].order,
     modul     |-> CellStr(rows[k].modul),
     bereich   |-> CellStr(rows[k].bereich),
     kategorie |-> CellStr(rows[k].kategorie),
     uebung    |-> CellStr(rows[k].uebung)]

\* the entry appended for a link cell: {**base, "link_typ": ..., ...}
SlotEntry(base, typ, cell) ==
    [row       |-> base.row,
     order     |-> base.order,
     modul     |-> base.modul,
     bereich   |-> base.bereich,
     kategorie |-> base.kategorie,
     uebung    |-> base.uebung,
     link_typ  |-> typ,
     url       |-> Strip(cell),
     url_clean |-> clean_vimeo_url(cell),
     vimeo_id  |-> extract_vimeo_id(clean_vimeo_url(cell))]

\* mutant: the "lang" cell of a row is looked at before its "kurz" cell
RowEntriesLangFirst(rows, k) ==
    (IF IsVimeoCell(rows[k].lang)
        THEN <<SlotEntry(Base(rows, k), "lang", rows[k].lang)>> ELSE << >>)
    \o
    (IF IsVimeoCell(rows[k].kurz)
        THEN <<SlotEntry(Base(rows, k), "kurz", rows[k].kurz)>> ELSE << >>)

\* the entries of sheet row k + 1 (the header is row 1): kurz before lang
RowEntries(rows, k) ==
    (IF IsVimeoCell(rows[k].kurz)
        THEN <<SlotEntry(Base(rows, k), "kurz", rows[k].kurz)>> ELSE << >>)
    \o
    (IF IsVimeoCell(rows[k].lang)
        THEN <<SlotEntry(Base(rows, k), "lang", rows[k].lang)>> ELSE << >>)

RECURSIVE EntriesUpTo(_, _)
EntriesUpTo(rows, k) ==
    IF k = 0 THEN << >> ELSE EntriesUpTo(rows, k - 1) \o RowEntries(rows, k)

\* the flat list of entries read_excel returns for the data rows of a sheet
read_excel(rows) == EntriesUpTo(rows, Len(rows))

\* entries = read_excel(args.input) in main
entries == read_excel(Sheet)

\* mutant: the key is added without the test `vid and`
RECURSIVE UniqueUpToKeepingNone(_, _)
UniqueUpToKeepingNone(es, k) ==
    IF k = 0 THEN << >>
    ELSE LET seen == UniqueUpToKeepingNone(es, k - 1)
             vid  == es[k].vimeo_id
         IN  IF \A m \in 1..Len(seen) : seen[m] # vid
                THEN Append(seen, vid) ELSE seen

\* the keys of the dict unique_ids that download_audio builds from the first
\* k entries, in insertion order
RECURSIVE UniqueUpTo(_, _)
UniqueUpTo(es, k) ==
    IF k = 0 THEN << >>
    ELSE LET seen == UniqueUpTo(es, k - 1)
             vid  == es[k].vimeo_id
         IN  IF vid # None /\ \A m \in 1..Len(seen) : seen[m] # vid
                THEN Append(seen, vid) ELSE seen

\* mutant: every entry with an id is listed, without `vid not in unique_ids`
unique_ids_with_repeats ==
    SelectSeq([k \in 1..Len(entries) |-> entries[k].vimeo_id],
              LAMBDA v : v # None)

unique_ids == UniqueUpTo(entries, Len(entries))

Keys == {unique_ids[k] : k \in 1..Len(unique_ids)}


\* os.path.join(AUDIO_DIR, f"{vimeo_id}.mp3")
AudioPath(id) == <<"output/audio/", id, ".mp3">>

\* Python's < on two id strings (lexicographic by character)
LexLess(a, b) ==
    \E k \in 1..(Len(a) + 1) :
        /\ \A m \in 1..(k - 1) : m <= Len(b) /\ a[m] = b[m]
        /\ \/ k = Len(a) + 1 /\ Len(b) >= k
           \/ k <= Len(a) /\ k <= Len(b) /\ DigitVal(a[k]) < DigitVal(b[k])

\* sorted(S) for a set of id strings
RECURSIVE SortedSeq(_)
SortedSeq(S) ==
    IF S = {} THEN << >>
    ELSE LET least == CHOOSE x \in S : \A y \in S : y = x \/ LexLess(x, y)
         IN  <<least>> \o SortedSeq(S \ {least})

(***************************************************************************)
(* Records of the checkpoint                                               *)
(***************************************************************************)

Unset == [status |-> "unset"]

NoFileMsg       == "Datei nicht gefunden nach Download"
AudioMissingMsg == "Audio-Datei nicht gefunden"

EmptyDict == [k \in Keys |-> Unset]

\* {"downloaded": {}, "transcribed": {}}
EmptyProgress == [downloaded |-> EmptyDict, transcribed |-> EmptyDict]

\* the progress file: absent, a complete JSON document, or a strict prefix
\* of one (open(..., "w") truncated it and the dump did not finish)
NoFile      == [kind |-> "absent",  content |-> EmptyProgress]
PartialFile == [kind |-> "partial", content |-> EmptyProgress]

\* what save_progress leaves in the file when it runs to its end
save_progress(progress) == [kind |-> "json", content |-> progress]

\* mutant: the existing progress file is not read
load_progress_ignoring_file(file) == EmptyProgress

\* load_progress on a file json.load can parse, or on no file
load_progress(file) ==
    IF file.kind = "json" THEN file.content ELSE EmptyProgress

VARIABLES
    pc,               \* where the process is: idle, fetch, transform, export,
                      \* done, killed, crashed
    why,              \* how the process died: [kind, phase]
    run,              \* number of process starts so far
    skip_download,    \* args.skip_download of the current run
    skip_transcribe,  \* args.skip_transcribe of the current run
    downloaded,       \* progress["downloaded"] in memory
    transcribed,      \* progress["transcribed"] in memory
    disk,             \* content of PROGRESS_FILE
    files,            \* the .mp3 files present in AUDIO_DIR
    i,                \* loop position of the running phase (1-based)
    report,           \* rows written by export_results
    committed,        \* history: the last completely written state of the file
    fetchLog,         \* history: per id, what download_audio did in this run
    transLog,         \* history: per id, what transcribe_audio did in this run
    fetchCalls,       \* history: ydl.download calls begun per id in this run
    transCalls,       \* history: model.transcribe calls begun per id in this run
    savedF,           \* history: ids whose save in download_audio completed
    savedT,           \* history: ids whose save in transcribe_audio completed
    start,            \* history: progress and files when this run started
    prev,             \* history: how the previous run ended and what it saved
    input,            \* registry check: the data rows of the sheet that is read
    regPc,            \* registry check: idle, start, read, reread
    regFirst,         \* registry check: entries and ids of the first reading
    regSecond         \* registry check: entries and ids of the second reading

\* the variables of the pipeline and those of the registry check
pipeVars == <<pc, why, run, skip_download, skip_transcribe, downloaded,
              transcribed, disk, files, i, report, committed, fetchLog,
              transLog, fetchCalls, transCalls, savedF, savedT, start, prev>>

regVars == <<input, regPc, regFirst, regSecond>>

vars == <<pipeVars, regVars>>

\* the dict `progress` of main: both phase dicts are its values
Progress == [downloaded |-> downloaded, transcribed |-> transcribed]

NoWhy == [kind |-> "none", phase |-> "none"]

\* pos is the loop position at which the phase took the item up (the i of
\* the [i/total] line it prints), 0 when it has not
NotHandledF == [handled |-> "none", raised |-> FALSE, exists |-> FALSE,
                pos |-> 0]
NotHandledT == [handled |-> "none", raised |-> FALSE, pos |-> 0]

Ended == {"idle", "done", "killed", "crashed"}

\* what read_excel and the unique_ids loop of download_audio make of rows
Registry(rows) ==
    [entries |-> read_excel(rows),
     ids     |-> UniqueUpTo(read_excel(rows), Len(read_excel(rows)))]

NotRead == [entries |-> << >>, ids |-> << >>]

\* the pipeline works on Sheet; the registry check is not running
RegIdle ==
    /\ input = Sheet
    /\ regPc = "idle"
    /\ regFirst = NotRead
    /\ regSecond = NotRead

\* no process has run yet: no progress file, no audio file
PipelineIdle ==
    /\ pc = "idle"
    /\ why = NoWhy
    /\ run = 0
    /\ skip_download = FALSE
    /\ skip_transcribe = FALSE
    /\ downloaded = EmptyDict
    /\ transcribed = EmptyDict
    /\ disk = NoFile
    /\ files = {}
    /\ i = 1
    /\ report = << >>
    /\ committed = NoFile
    /\ fetchLog = [k \in Keys |-> NotHandledF]
    /\ transLog = [k \in Keys |-> NotHandledT]
    /\ fetchCalls = [k \in Keys |-> 0]
    /\ transCalls = [k \in Keys |-> 0]
    /\ savedF = {}
    /\ savedT = {}
    /\ start = [progress |-> EmptyProgress, files |-> {}]
    /\ prev = [pc |-> "idle", why |-> NoWhy, savedF |-> {}, savedT |-> {},
               items |-> {}]

Init == PipelineIdle /\ RegIdle


(***************************************************************************)
(* Decisions and results of the two phase loops                            *)
(***************************************************************************)

\* mutant: the status is compared with a tag that is never stored
FetchSkipWrongTag(id, d, fs) ==
    /\ d[id] # Unset
    /\ d[id].status = "done"
    /\ d[id].path \in fs

\* mutant: the os.path.exists check of the recorded path is left out
FetchSkipNoFileCheck(id, d, fs) ==
    /\ d[id] # Unset
    /\ d[id].status = "ok"

\* download_audio: the `continue` of an item that is already there
FetchSkip(id, d, fs) ==
    /\ d[id] # Unset
    /\ d[id].status = "ok"
    /\ d[id].path \in fs

\* mutant: a call that returns counts as a success, the file is not looked at
download_result_trusting_return(raised, exists, path, msg) ==
    IF raised THEN [status |-> "error", error |-> msg]
    ELSE [status |-> "ok", path |-> path]

\* mutant: the exception is swallowed and only the file check decides
download_result_swallowing(raised, exists, path, msg) ==
    IF exists THEN [status |-> "ok", path |-> path]
    ELSE [status |-> "error", error |-> NoFileMsg]

\* download_audio: the record stored after ydl.download; `exists` is
\* os.path.exists(audio_path) after the call
download_result(raised, exists, path, msg) ==
    IF raised THEN [status |-> "error", error |-> msg]
    ELSE IF exists THEN [status |-> "ok", path |-> path]
    ELSE [status |-> "error", error |-> NoFileMsg]

\* transcribe_audio: the ids of the loop, sorted(unique_ids_to_transcribe)
ToTranscribe(d) ==
    SortedSeq({entries[k].vimeo_id : k \in
                 {m \in 1..Len(entries) :
                     /\ entries[m].vimeo_id # None
                     /\ d[entries[m].vimeo_id] # Unset
                     /\ d[entries[m].vimeo_id].status = "ok"}})

\* mutant: no item is skipped
TranscribeSkipNever(id, t) == FALSE

\* mutant: every item that has a record is skipped, whatever its status
TranscribeSkipAnyRecord(id, t) == t[id] # Unset

\* transcribe_audio: the `continue` of an item that is already transcribed
TranscribeSkip(id, t) == t[id] # Unset /\ t[id].status = "ok"

\* mutant: the audio file is not looked for
AudioMissingNever(id, d, fs) == FALSE

\* transcribe_audio: the `continue` of an item whose audio file is gone
AudioMissing(id, d, fs) == d[id].path \notin fs

\* transcribe_audio: the record stored after model.transcribe
transcribe_result(raised, out, ptime, msg) ==
    IF raised THEN [status |-> "error", error |-> msg]
    ELSE [status            |-> "ok",
          text              |-> out.text,
          audio_duration_s  |-> out.dur,
          processing_time_s |-> ptime]

\* rounded wall-clock seconds a transcription took
ProcTimes == {"3.2"}

\* mutant: every .mp3 in AUDIO_DIR becomes an ok entry, without the test
\* `vid not in downloaded`
ScanAudioDirOverwriting(d, fs) ==
    [k \in Keys |-> IF AudioPath(k) \in fs
                       THEN [status |-> "ok", path |-> AudioPath(k)]
                       ELSE d[k]]

\* main with --skip-download: every .mp3 in AUDIO_DIR whose id has no entry
\* becomes an ok entry; existing entries are kept
ScanAudioDir(d, fs) ==
    [k \in Keys |-> IF AudioPath(k) \in fs /\ d[k] = Unset
                       THEN [status |-> "ok", path |-> AudioPath(k)]
                       ELSE d[k]]

\* mutant: args.skip_transcribe is not looked at
AfterDownloadAlwaysTranscribe(st) == "transform"

\* main: the phase that follows the download phase
AfterDownload(st) == IF st THEN "export" ELSE "transform"

(***************************************************************************)
(* export_results                                                          *)
(***************************************************************************)

ErrorText(rec) == <<"[Fehler: ", rec.error, "]">>

\* mutant: the download error is tested before the transcript
RowOutcomeFetchErrorFirst(vid, t, d) ==
    IF vid = None
      THEN [status |-> "keine_vimeo_id", text |-> << >>, audio_dur |-> ""]
    ELSE IF d[vid] # Unset /\ d[vid].status = "error"
      THEN [status |-> "download_fehlgeschlagen",
            text |-> ErrorText(d[vid]), audio_dur |-> ""]
    ELSE IF t[vid] # Unset /\ t[vid].status = "ok"
      THEN [status |-> "ok", text |-> <<t[vid].text>>,
            audio_dur |-> t[vid].audio_duration_s]
    ELSE IF t[vid] # Unset /\ t[vid].status = "error"
      THEN [status |-> "transkription_fehlgeschlagen",
            text |-> ErrorText(t[vid]), audio_dur |-> ""]
    ELSE [status |-> "nicht_verarbeitet", text |-> << >>, audio_dur |-> ""]

\* the if/elif chain of export_results: status, text, audio_dur of a row
RowOutcome(vid, t, d) ==
    IF vid = None
      THEN [status |-> "keine_vimeo_id", text |-> << >>, audio_dur |-> ""]
    ELSE IF t[vid] # Unset /\ t[vid].status = "ok"
      THEN [status |-> "ok", text |-> <<t[vid].text>>,
            audio_dur |-> t[vid].audio_duration_s]
    ELSE IF d[vid] # Unset /\ d[vid].status = "error"
      THEN [status |-> "download_fehlgeschlagen",
            text |-> ErrorText(d[vid]), audio_dur |-> ""]
    ELSE IF t[vid] # Unset /\ t[vid].status = "error"
      THEN [status |-> "transkription_fehlgeschlagen",
            text |-> ErrorText(t[vid]), audio_dur |-> ""]
    ELSE [status |-> "nicht_verarbeitet", text |-> << >>, audio_dur |-> ""]

\* mutant: the transcript is written only to the "kurz" row of an id
ReportRowTextOnKurz(entry, t, d) ==
    [order     |-> entry.order,
     modul     |-> entry.modul,
     bereich   |-> entry.bereich,
     kategorie |-> entry.kategorie,
     uebung    |-> entry.uebung,
     link_typ  |-> entry.link_typ,
     url       |-> entry.url,
     vimeo_id  |-> entry.vimeo_id,
     audio_dur |-> RowOutcome(entry.vimeo_id, t, d).audio_dur,
     text      |-> IF entry.link_typ = "kurz"
                      THEN RowOutcome(entry.vimeo_id, t, d).text ELSE << >>,
     status    |-> RowOutcome(entry.vimeo_id, t, d).status]

\* one report row: the `values` list of an entry (`vid or ""` is the id
\* itself, None being the empty sequence)
ReportRow(entry, t, d) ==
    [order     |-> entry.order,
     modul     |-> entry.modul,
     bereich   |-> entry.bereich,
     kategorie |-> entry.kategorie,
     uebung    |-> entry.uebung,
     link_typ  |-> entry.link_typ,
     url       |-> entry.url,
     vimeo_id  |-> entry.vimeo_id,
     audio_dur |-> RowOutcome(entry.vimeo_id, t, d).audio_dur,
     text      |-> RowOutcome(entry.vimeo_id, t, d).text,
     status    |-> RowOutcome(entry.vimeo_id, t, d).status]

\* mutant: entries without a Vimeo id are left out of the report
export_results_without_no_id(es, t, d) ==
    LET kept == SelectSeq(es, LAMBDA e : e.vimeo_id # None)
    IN  [k \in 1..Len(kept) |-> ReportRow(kept[k], t, d)]

\* the rows export_results writes, one per entry, in entry order: the row
\* at position k is written to row k + 1 of the output sheet
export_results(es, t, d) == [k \in 1..Len(es) |-> ReportRow(es[k], t, d)]


(***************************************************************************)
(* main: start of a run                                                    *)
(***************************************************************************)

\* the items of the loop the process is in (or died in)
PhaseItems ==
    IF pc = "fetch" \/ why.phase = "fetch" THEN Keys
    ELSE IF pc = "transform" \/ why.phase = "transform"
      THEN {k \in Keys : \E m \in 1..Len(ToTranscribe(downloaded)) :
                            ToTranscribe(downloaded)[m] = k}
    ELSE {}

ResetHistory ==
    /\ fetchLog' = [k \in Keys |-> NotHandledF]
    /\ transLog' = [k \in Keys |-> NotHandledT]
    /\ fetchCalls' = [k \in Keys |-> 0]
    /\ transCalls' = [k \in Keys |-> 0]
    /\ savedF' = {}
    /\ savedT' = {}
    /\ prev' = [pc |-> pc, why |-> why, savedF |-> savedF, savedT |-> savedT,
                items |-> PhaseItems]

\* main up to the first phase: load_progress, read_excel, and with
\* --skip-download the scan of AUDIO_DIR; n bounds the number of starts
StartRunWithin(n, sd, st) ==
    /\ pc \in Ended
    /\ run < n
    /\ disk.kind # "partial"
    /\ run' = run + 1
    /\ skip_download' = sd
    /\ skip_transcribe' = st
    /\ LET loaded == load_progress(disk)
       IN  /\ downloaded' = IF sd THEN ScanAudioDir(loaded.downloaded, files)
                                  ELSE loaded.downloaded
           /\ transcribed' = loaded.transcribed
    /\ start' = [progress |-> disk.content, files |-> files]
    /\ pc' = IF sd THEN AfterDownload(st) ELSE "fetch"
    /\ why' = NoWhy
    /\ i' = 1
    /\ report' = << >>
    /\ ResetHistory
    /\ UNCHANGED <<disk, files, committed,
                   regVars>>

\* the same, the process being started at most MaxRuns times
StartRun(sd, st) == StartRunWithin(MaxRuns, sd, st)

\* main when json.load cannot parse the progress file: the exception escapes
StartRunLoadFails(sd, st) ==
    /\ pc \in Ended
    /\ run < MaxRuns
    /\ disk.kind = "partial"
    /\ run' = run + 1
    /\ skip_download' = sd
    /\ skip_transcribe' = st
    /\ downloaded' = EmptyDict
    /\ transcribed' = EmptyDict
    /\ start' = [progress |-> disk.content, files |-> files]
    /\ pc' = "crashed"
    /\ why' = [kind |-> "load", phase |-> "none"]
    /\ i' = 1
    /\ report' = << >>
    /\ ResetHistory
    /\ UNCHANGED <<disk, files, committed,
                   regVars>>

(***************************************************************************)
(* download_audio: one iteration of the loop                               *)
(***************************************************************************)

\* mutant: the exception of save_progress is caught and the loop goes on
AfterSaveErrorGoesOn(phase) == phase

\* where the process is after save_progress has raised in a loop: the call
\* stands outside the try block, so the exception leaves the loop and main
AfterSaveError(phase) == "crashed"

\* mutant: the loop is left after its first iteration
FetchLoopOverAfterFirst(k) == k > 1

\* the for loop over unique_ids.items() is exhausted at position k
FetchLoopOver(k) == k > Len(unique_ids)

AtFetchItem == pc = "fetch" /\ ~FetchLoopOver(i)

\* the iteration of an item that is skipped: no collaborator call, no save
FetchItemSkip ==
    /\ AtFetchItem
    /\ FetchSkip(unique_ids[i], downloaded, files)
    /\ i' = i + 1
    /\ fetchLog' = [fetchLog EXCEPT ![unique_ids[i]] =
                      [handled |-> "skipped", raised |-> FALSE,
                       exists |-> FALSE, pos |-> i]]
    /\ UNCHANGED <<pc, why, run, skip_download, skip_transcribe, downloaded,
                   transcribed, disk, files, report, committed, transLog,
                   fetchCalls, transCalls, savedF, savedT, start, prev,
                   regVars>>

\* ydl.download for item id and the record stored for it: the collaborator
\* raises or returns, and leaves the audio file there or not (it never
\* removes a file that was there)
FetchInvoke(id, raised, made, msg) ==
    /\ files' = IF made THEN files \cup {AudioPath(id)} ELSE files
    /\ downloaded' = [downloaded EXCEPT ![id] =
                        download_result(raised, AudioPath(id) \in files',
                                        AudioPath(id), msg)]
    /\ fetchCalls' = [fetchCalls EXCEPT ![id] = @ + 1]
    /\ fetchLog' = [fetchLog EXCEPT ![id] =
                      [handled |-> "invoked", raised |-> raised,
                       exists |-> AudioPath(id) \in files', pos |-> i]]

\* the iteration of an item that is attempted, up to and including the save
FetchItem ==
    /\ AtFetchItem
    /\ ~FetchSkip(unique_ids[i], downloaded, files)
    /\ \E raised \in BOOLEAN, made \in BOOLEAN, msg \in ExMsgs :
          FetchInvoke(unique_ids[i], raised, made, msg)
    /\ UNCHANGED <<pc, why, run, skip_download, skip_transcribe, transcribed,
                   report, transLog, transCalls, savedT, start, prev,
                   regVars>>
    /\ disk' = save_progress(Progress')
    /\ committed' = disk'
    /\ savedF' = savedF \cup {unique_ids[i]}
    /\ i' = i + 1

\* the same iteration when the process is killed inside save_progress, after
\* open(..., "w") has truncated the file and before the dump is flushed
FetchItemKilledInSave ==
    /\ AtFetchItem
    /\ ~FetchSkip(unique_ids[i], downloaded, files)
    /\ \E raised \in BOOLEAN, made \in BOOLEAN, msg \in ExMsgs :
          FetchInvoke(unique_ids[i], raised, made, msg)
    /\ disk' = PartialFile
    /\ pc' = "killed"
    /\ why' = [kind |-> "during", phase |-> "fetch"]
    /\ UNCHANGED <<run, skip_download, skip_transcribe, transcribed, i, report,
                   committed, transLog, transCalls, savedF, savedT, start, prev,
                   regVars>>

\* the same iteration when save_progress raises (open fails: file untouched;
\* the write fails: file truncated); the exception escapes download_audio
FetchItemSaveFails ==
    /\ AtFetchItem
    /\ ~FetchSkip(unique_ids[i], downloaded, files)
    /\ \E raised \in BOOLEAN, made \in BOOLEAN, msg \in ExMsgs :
          FetchInvoke(unique_ids[i], raised, made, msg)
    /\ disk' \in {disk, PartialFile}
    /\ pc' = AfterSaveError(pc)
    /\ why' = [kind |-> "save", phase |-> "fetch"]
    /\ UNCHANGED <<run, skip_download, skip_transcribe, transcribed, i, report,
                   committed, transLog, transCalls, savedF, savedT, start, prev,
                   regVars>>

\* download_audio before its loop: `import yt_dlp` raises (the package is
\* not installed); the exception leaves download_audio and main
FetchSetupFails ==
    /\ pc = "fetch"
    /\ i = 1
    /\ \A id \in Keys : fetchLog[id].handled = "none"
    /\ pc' = "crashed"
    /\ why' = [kind |-> "setup", phase |-> "fetch"]
    /\ UNCHANGED <<run, skip_download, skip_transcribe, downloaded,
                   transcribed, disk, files, i, report, committed, fetchLog,
                   transLog, fetchCalls, transCalls, savedF, savedT, start,
                   prev, regVars>>

\* download_audio returns; main goes on to phase 3 or to the export
FetchDone ==
    /\ pc = "fetch"
    /\ FetchLoopOver(i)
    /\ pc' = AfterDownload(skip_transcribe)
    /\ i' = 1
    /\ UNCHANGED <<why, run, skip_download, skip_transcribe, downloaded,
                   transcribed, disk, files, report, committed, fetchLog,
                   transLog, fetchCalls, transCalls, savedF, savedT, start, prev,
                   regVars>>


(***************************************************************************)
(* transcribe_audio: one iteration of the loop                             *)
(***************************************************************************)

\* the for loop over sorted(unique_ids_to_transcribe) is exhausted at k
TransformLoopOver(k, d) == k > Len(ToTranscribe(d))

AtTransformItem == pc = "transform" /\ ~TransformLoopOver(i, downloaded)

CurrentT == ToTranscribe(downloaded)[i]

\* the iteration of an item that is already transcribed: no call, no save
TransformItemSkip ==
    /\ AtTransformItem
    /\ TranscribeSkip(CurrentT, transcribed)
    /\ i' = i + 1
    /\ transLog' = [transLog EXCEPT ![CurrentT] =
                      [handled |-> "skipped", raised |-> FALSE, pos |-> i]]
    /\ UNCHANGED <<pc, why, run, skip_download, skip_transcribe, downloaded,
                   transcribed, disk, files, report, committed, fetchLog,
                   fetchCalls, transCalls, savedF, savedT, start, prev,
                   regVars>>

\* the iteration of an item whose audio file does not exist: the error is
\* stored in memory and the loop continues without calling save_progress
TransformItemNoAudio ==
    /\ AtTransformItem
    /\ ~TranscribeSkip(CurrentT, transcribed)
    /\ AudioMissing(CurrentT, downloaded, files)
    /\ transcribed' = [transcribed EXCEPT ![CurrentT] =
                         [status |-> "error", error |-> AudioMissingMsg]]
    /\ i' = i + 1
    /\ transLog' = [transLog EXCEPT ![CurrentT] =
                      [handled |-> "missing", raised |-> FALSE, pos |-> i]]
    /\ UNCHANGED <<pc, why, run, skip_download, skip_transcribe, downloaded,
                   disk, files, report, committed, fetchLog, fetchCalls,
                   transCalls, savedF, savedT, start, prev,
                   regVars>>

\* model.transcribe for item id and the record stored for it
TransformInvoke(id, raised, out, ptime, msg) ==
    /\ transcribed' = [transcribed EXCEPT ![id] =
                         transcribe_result(raised, out, ptime, msg)]
    /\ transCalls' = [transCalls EXCEPT ![id] = @ + 1]
    /\ transLog' = [transLog EXCEPT ![id] =
                      [handled |-> "invoked", raised |-> raised, pos |-> i]]

AtTransformAttempt ==
    /\ AtTransformItem
    /\ ~TranscribeSkip(CurrentT, transcribed)
    /\ ~AudioMissing(CurrentT, downloaded, files)

\* the iteration of an item that is attempted, up to and including the save
TransformItem ==
    /\ AtTransformAttempt
    /\ \E raised \in BOOLEAN, out \in TransformOutputs,
          ptime \in ProcTimes, msg \in ExMsgs :
          TransformInvoke(CurrentT, raised, out, ptime, msg)
    /\ UNCHANGED <<pc, why, run, skip_download, skip_transcribe, downloaded,
                   files, report, fetchLog, fetchCalls, savedF, start, prev,
                   regVars>>
    /\ disk' = save_progress(Progress')
    /\ committed' = disk'
    /\ savedT' = savedT \cup {CurrentT}
    /\ i' = i + 1

\* the same iteration when the process is killed inside save_progress
TransformItemKilledInSave ==
    /\ AtTransformAttempt
    /\ \E raised \in BOOLEAN, out \in TransformOutputs,
          ptime \in ProcTimes, msg \in ExMsgs :
          TransformInvoke(CurrentT, raised, out, ptime, msg)
    /\ disk' = PartialFile
    /\ pc' = "killed"
    /\ why' = [kind |-> "during", phase |-> "transform"]
    /\ UNCHANGED <<run, skip_download, skip_transcribe, downloaded, files, i,
                   report, committed, fetchLog, fetchCalls, savedF, savedT,
                   start, prev,
                   regVars>>

\* the same iteration when save_progress raises
TransformItemSaveFails ==
    /\ AtTransformAttempt
    /\ \E raised \in BOOLEAN, out \in TransformOutputs,
          ptime \in ProcTimes, msg \in ExMsgs :
          TransformInvoke(CurrentT, raised, out, ptime, msg)
    /\ disk' \in {disk, PartialFile}
    /\ pc' = AfterSaveError(pc)
    /\ why' = [kind |-> "save", phase |-> "transform"]
    /\ UNCHANGED <<run, skip_download, skip_transcribe, downloaded, files, i,
                   report, committed, fetchLog, fetchCalls, savedF, savedT,
                   start, prev,
                   regVars>>

\* transcribe_audio before its loop: the import of faster_whisper or
\* WhisperModel(model_size, ...) raises (package missing, unknown model
\* size, model not downloadable); both stand outside every try block, so
\* the exception leaves transcribe_audio and main
TransformSetupFails ==
    /\ pc = "transform"
    /\ i = 1
    /\ \A id \in Keys : transLog[id].handled = "none"
    /\ pc' = "crashed"
    /\ why' = [kind |-> "setup", phase |-> "transform"]
    /\ UNCHANGED <<run, skip_download, skip_transcribe, downloaded,
                   transcribed, disk, files, i, report, committed, fetchLog,
                   transLog, fetchCalls, transCalls, savedF, savedT, start,
                   prev, regVars>>

\* transcribe_audio returns; main goes on to the export
TransformDone ==
    /\ pc = "transform"
    /\ TransformLoopOver(i, downloaded)
    /\ pc' = "export"
    /\ i' = 1
    /\ UNCHANGED <<why, run, skip_download, skip_transcribe, downloaded,
                   transcribed, disk, files, report, committed, fetchLog,
                   transLog, fetchCalls, transCalls, savedF, savedT, start, prev,
                   regVars>>

(***************************************************************************)
(* main: phase 4, and the environment                                      *)
(***************************************************************************)

Export ==
    /\ pc = "export"
    /\ report' = export_results(entries, transcribed, downloaded)
    /\ pc' = "done"
    /\ UNCHANGED <<why, run, skip_download, skip_transcribe, downloaded,
                   transcribed, disk, files, i, committed, fetchLog, transLog,
                   fetchCalls, transCalls, savedF, savedT, start, prev,
                   regVars>>

\* the process is killed between two saves: at a loop boundary, or inside
\* the collaborator call of the item in flight (inCall).  The call has then
\* been made and counts, its result is never stored, and ydl.download may
\* already have written its file (made)
Kill ==
    /\ pc \in {"fetch", "transform"}
    /\ \E inCall \in BOOLEAN, made \in BOOLEAN :
          /\ inCall =>
                \/ AtFetchItem /\ ~FetchSkip(unique_ids[i], downloaded, files)
                \/ AtTransformAttempt
          /\ made => inCall /\ pc = "fetch"
          /\ files' = IF made THEN files \cup {AudioPath(unique_ids[i])}
                              ELSE files
          /\ fetchCalls' = IF inCall /\ pc = "fetch"
                              THEN [fetchCalls EXCEPT ![unique_ids[i]] = @ + 1]
                              ELSE fetchCalls
          /\ transCalls' = IF inCall /\ pc = "transform"
                              THEN [transCalls EXCEPT ![CurrentT] = @ + 1]
                              ELSE transCalls
    /\ why' = [kind |-> "between", phase |-> pc]
    /\ pc' = "killed"
    /\ UNCHANGED <<run, skip_download, skip_transcribe, downloaded,
                   transcribed, disk, i, report, committed, fetchLog, transLog,
                   savedF, savedT, start, prev, regVars>>

\* between two runs somebody removes an audio file
DeleteFileWithin(n) ==
    /\ pc \in Ended
    /\ run < n
    /\ \E f \in files : files' = files \ {f}
    /\ UNCHANGED <<pc, why, run, skip_download, skip_transcribe, downloaded,
                   transcribed, disk, i, report, committed, fetchLog, transLog,
                   fetchCalls, transCalls, savedF, savedT, start, prev,
                   regVars>>

\* the same, while a further start of the process is to come
DeleteFile == DeleteFileWithin(MaxRuns)

Next ==
    \/ \E sd \in BOOLEAN, st \in BOOLEAN : StartRun(sd, st)
    \/ \E sd \in BOOLEAN, st \in BOOLEAN : StartRunLoadFails(sd, st)
    \/ FetchItemSkip
    \/ FetchItem
    \/ FetchItemKilledInSave
    \/ FetchItemSaveFails
    \/ FetchSetupFails
    \/ FetchDone
    \/ TransformSetupFails
    \/ TransformItemSkip
    \/ TransformItemNoAudio
    \/ TransformItem
    \/ TransformItemKilledInSave
    \/ TransformItemSaveFails
    \/ TransformDone
    \/ Export
    \/ Kill
    \/ DeleteFile

Spec == Init /\ [][Next]_vars


(***************************************************************************)
(* Vocabulary of the properties                                            *)
(***************************************************************************)

\* the process is running or has run to its end
Alive == pc \in {"fetch", "transform", "export", "done"}

\* download_audio ran in this run and has returned
FetchPhaseOver == ~skip_download /\ pc \in {"transform", "export", "done"}

\* transcribe_audio ran in this run and has returned
TransformPhaseOver == ~skip_transcribe /\ pc \in {"export", "done"}

\* the previous process was killed between two saves
KilledBetweenSaves == prev.pc = "killed" /\ prev.why.kind = "between"

\* the checkpoint the file held when this run started
StartF(id) == start.progress.downloaded[id]
StartT(id) == start.progress.transcribed[id]

\* the loaded FetchState is ok and its file was there when the run started
StartFetchComplete(id) ==
    StartF(id).status = "ok" /\ StartF(id).path \in start.files

\* the ids transcribe_audio loops over in this run
TranscribeSet ==
    {ToTranscribe(downloaded)[m] : m \in 1..Len(ToTranscribe(downloaded))}

(***************************************************************************)
(* C1  crash-safety across runs                                            *)
(***************************************************************************)

\* C1 as stated: after a kill between two saves, the next run on the same
\* checkpoint file never calls the collaborator for an item whose save had
\* completed, and calls it for every item of the interrupted phase whose
\* save had not occurred.
C1_NoItemRepeatedNoItemLost ==
    KilledBetweenSaves =>
      /\ \A id \in prev.savedF : fetchCalls[id] = 0
      /\ \A id \in prev.savedT : transCalls[id] = 0
      /\ (FetchPhaseOver /\ prev.why.phase = "fetch") =>
            \A id \in prev.items \ prev.savedF : fetchCalls[id] >= 1
      /\ (TransformPhaseOver /\ prev.why.phase = "transform") =>
            \A id \in prev.items \ prev.savedT : transCalls[id] >= 1

\* the transform phase of this run met the item with its audio file there
TransformAttemptable(id) ==
    id \in TranscribeSet /\ transLog[id].handled # "missing"

\* C1 amended: after a kill between two saves, the next run does not call
\* the collaborator for an item whose completed save recorded ok (fetch: as
\* long as its file is still there); a phase of the next run that runs to
\* its end calls the collaborator exactly once for every item whose
\* completed save recorded an error (fetch: or an ok whose file has been
\* removed since) and exactly once for every item whose save had not
\* occurred, unless the checkpoint holds a complete ok for it (fetch) or, in
\* the transform phase, its FetchState is not ok or its audio file is
\* missing, in which case the collaborator is not called for it.
C1_ResumeAfterKill ==
    KilledBetweenSaves =>
      /\ \A id \in prev.savedF :
            StartFetchComplete(id) => fetchCalls[id] = 0
      /\ \A id \in prev.savedT :
            StartT(id).status = "ok" => transCalls[id] = 0
      /\ FetchPhaseOver =>
            \A id \in prev.savedF :
               ~StartFetchComplete(id) => fetchCalls[id] = 1
      /\ TransformPhaseOver =>
            \A id \in prev.savedT :
               /\ (StartT(id).status # "ok" /\ TransformAttemptable(id))
                     => transCalls[id] = 1
               /\ ~TransformAttemptable(id) => transCalls[id] = 0
      /\ (FetchPhaseOver /\ prev.why.phase = "fetch") =>
            \A id \in prev.items \ prev.savedF :
               ~StartFetchComplete(id) => fetchCalls[id] = 1
      /\ (TransformPhaseOver /\ prev.why.phase = "transform") =>
            \A id \in prev.items \ prev.savedT :
               /\ (StartT(id).status # "ok" /\ TransformAttemptable(id))
                     => transCalls[id] = 1
               /\ ~TransformAttemptable(id) => transCalls[id] = 0

\* a run resumed after a kill in the transform phase has skipped the
\* download of a saved item, called model.transcribe again for the item
\* whose completed save recorded an error and called it for the item whose
\* save had not occurred
C1_Witness ==
    /\ KilledBetweenSaves
    /\ prev.why.phase = "transform"
    /\ FetchPhaseOver
    /\ TransformPhaseOver
    /\ \E id \in prev.savedF :
          StartFetchComplete(id) /\ fetchLog[id].handled = "skipped"
    /\ \E id \in prev.savedT :
          StartT(id).status = "error" /\ transCalls[id] = 1
    /\ \E id \in prev.items \ prev.savedT :
          StartT(id).status # "ok" /\ transCalls[id] = 1

(***************************************************************************)
(* C2  atomic save                                                         *)
(***************************************************************************)

\* C2: when the process is interrupted inside save_progress, the file holds
\* either the previous complete snapshot or the whole new mapping.
C2_SaveIsAtomic ==
    (pc = "killed" /\ why.kind = "during") =>
        disk \in {committed, save_progress(Progress)}

(***************************************************************************)
(* C3  checkpoint after every item                                         *)
(***************************************************************************)

\* C3: whenever a phase loop has finished handling an item, the file holds
\* the whole in-memory progress mapping.
C3_DiskMatchesMemoryAfterItem ==
    (pc \in {"fetch", "transform"} /\ i > 1) =>
        load_progress(disk) = Progress


(***************************************************************************)
(* C4  failure isolation                                                   *)
(***************************************************************************)

FetchFailed(id) == fetchLog[id].handled = "invoked" /\ fetchLog[id].raised
TransformFailed(id) == transLog[id].handled = "invoked" /\ transLog[id].raised

\* C4: in both phases an item whose collaborator call fails gets the state
\* error(message), the failure ends neither the phase nor the run, and every
\* item of the phase is handled by the time the phase returns; a process
\* that dies of an exception does so in load_progress, in save_progress or
\* before the loop of a phase, never because an item failed.
C4_FailureIsolation ==
    /\ \A id \in Keys :
          FetchFailed(id) =>
             downloaded[id].status = "error" /\ downloaded[id].error \in ExMsgs
    /\ \A id \in Keys :
          TransformFailed(id) =>
             transcribed[id].status = "error" /\ transcribed[id].error \in ExMsgs
    /\ FetchPhaseOver => \A id \in Keys : fetchLog[id].handled # "none"
    /\ TransformPhaseOver =>
          \A id \in TranscribeSet : transLog[id].handled # "none"
    /\ pc = "crashed" => why.kind \in {"load", "save", "setup"}
    /\ (pc = "crashed" /\ why.phase = "fetch" /\ \E id \in Keys : FetchFailed(id))
          => why.kind = "save"
    /\ (pc = "crashed" /\ why.phase = "transform"
                       /\ \E id \in Keys : TransformFailed(id))
          => why.kind = "save"

\* the transform of an item failed and a later item of the same phase run
\* was still transcribed successfully
C4_Witness ==
    /\ TransformPhaseOver
    /\ \E m, n \in 1..Len(ToTranscribe(downloaded)) :
          /\ m < n
          /\ TransformFailed(ToTranscribe(downloaded)[m])
          /\ transcribed[ToTranscribe(downloaded)[m]].status = "error"
          /\ transLog[ToTranscribe(downloaded)[n]].handled = "invoked"
          /\ transcribed[ToTranscribe(downloaded)[n]].status = "ok"

(***************************************************************************)
(* C5  idempotence of a completed fetch                                    *)
(***************************************************************************)

\* C5: an item whose FetchState is ok with its file present when the fetch
\* phase starts is never passed to ydl.download in that run, and its record
\* stays the same in memory and in the checkpoint file.
C5_CompletedFetchUntouched ==
    (Alive /\ ~skip_download) =>
       \A id \in Keys :
          StartFetchComplete(id) =>
             /\ fetchCalls[id] = 0
             /\ downloaded[id] = StartF(id)
             /\ load_progress(disk).downloaded[id] = StartF(id)

\* a fetch phase has skipped a complete item and rewritten the checkpoint
\* for another one
C5_Witness ==
    /\ FetchPhaseOver
    /\ savedF # {}
    /\ \E id \in Keys :
          /\ StartFetchComplete(id)
          /\ fetchLog[id].handled = "skipped"
          /\ disk.content.downloaded[id] = StartF(id)

(***************************************************************************)
(* C6  self-healing                                                        *)
(***************************************************************************)

StartFetchStale(id) ==
    StartF(id).status = "ok" /\ StartF(id).path \notin start.files

\* C6: an item whose FetchState is ok but whose file is missing when the
\* fetch phase starts is not skipped: ydl.download is called for it once and
\* its state becomes the outcome of that call.
C6_SelfHealing ==
    (~skip_download /\ run >= 1) =>
       \A id \in Keys :
          StartFetchStale(id) =>
             /\ fetchLog[id].handled # "skipped"
             /\ FetchPhaseOver =>
                  /\ fetchCalls[id] = 1
                  /\ fetchLog[id].handled = "invoked"
                  /\ downloaded[id].status \in {"ok", "error"}
                  /\ downloaded[id].status = "ok" <=>
                        (~fetchLog[id].raised /\ fetchLog[id].exists)

\* a stale ok entry was downloaded again and is ok again
C6_Witness ==
    /\ FetchPhaseOver
    /\ \E id \in Keys :
          /\ StartFetchStale(id)
          /\ fetchCalls[id] = 1
          /\ downloaded[id].status = "ok"
          /\ downloaded[id].path \in files

(***************************************************************************)
(* C7  status decision list                                                *)
(***************************************************************************)

StatusIs(vid, dict, tag) == vid # None /\ dict[vid].status = tag

\* C7: the report has one row per entry and its status follows the ordered
\* list: no id -> keine_vimeo_id; TransformState ok -> ok; FetchState error
\* -> download_fehlgeschlagen; TransformState error ->
\* transkription_fehlgeschlagen; otherwise nicht_verarbeitet.
C7_StatusDecisionList ==
    pc = "done" =>
       /\ Len(report) = Len(entries)
       /\ \A k \in 1..Len(entries) :
             LET vid == entries[k].vimeo_id
                 st  == report[k].status
                 tOk  == StatusIs(vid, transcribed, "ok")
                 tErr == StatusIs(vid, transcribed, "error")
                 fErr == StatusIs(vid, downloaded, "error")
             IN  /\ vid = None => st = "keine_vimeo_id"
                 /\ tOk => st = "ok"
                 /\ (vid # None /\ ~tOk /\ fErr) => st = "download_fehlgeschlagen"
                 /\ (vid # None /\ ~tOk /\ ~fErr /\ tErr)
                       => st = "transkription_fehlgeschlagen"
                 /\ (vid # None /\ ~tOk /\ ~fErr /\ ~tErr)
                       => st = "nicht_verarbeitet"

\* one report holds a row that is ok although its fetch state is error, and
\* a row that is download_fehlgeschlagen with no transform state
C7_Witness ==
    /\ pc = "done"
    /\ \E k \in 1..Len(entries) :
          /\ StatusIs(entries[k].vimeo_id, transcribed, "ok")
          /\ StatusIs(entries[k].vimeo_id, downloaded, "error")
          /\ report[k].status = "ok"
    /\ \E k \in 1..Len(entries) :
          /\ StatusIs(entries[k].vimeo_id, transcribed, "unset")
          /\ StatusIs(entries[k].vimeo_id, downloaded, "error")
          /\ report[k].status = "download_fehlgeschlagen"

(***************************************************************************)
(* C8  fan-out of one item onto its rows                                   *)
(***************************************************************************)

\* C8: entries that share an id get a report row each (with their own
\* Order, link kind and URL), and these rows agree in status, text and
\* duration.
C8_SharedKeySameOutcome ==
    pc = "done" =>
       \A j, k \in 1..Len(entries) :
          (entries[j].vimeo_id # None /\ entries[j].vimeo_id = entries[k].vimeo_id)
          =>
             /\ j \in DOMAIN report /\ k \in DOMAIN report
             /\ report[j].order = entries[j].order
             /\ report[j].link_typ = entries[j].link_typ
             /\ report[j].url = entries[j].url
             /\ report[j].status = report[k].status
             /\ report[j].text = report[k].text
             /\ report[j].audio_dur = report[k].audio_dur

\* both link slots of one sheet row point at the same id and both rows of
\* the report carry its transcript
C8_Witness ==
    /\ pc = "done"
    /\ \E j, k \in 1..Len(entries) :
          /\ j # k
          /\ entries[j].row = entries[k].row
          /\ entries[j].vimeo_id = entries[k].vimeo_id
          /\ report[j].status = "ok"
          /\ report[k].status = "ok"
          /\ report[j].text = <<"hallo">>
          /\ report[k].text = <<"hallo">>

(***************************************************************************)
(* C9  one collaborator call per item                                      *)
(***************************************************************************)

\* C9 as stated: per run and phase the collaborator is called at most once
\* per id, and exactly once for every item of the phase that the skip
\* decision (state ok, artifact present) does not skip.
C9_ExactlyOncePerUnskippedItem ==
    /\ \A id \in Keys : fetchCalls[id] <= 1 /\ transCalls[id] <= 1
    /\ FetchPhaseOver =>
          \A id \in Keys :
             fetchCalls[id] = IF StartFetchComplete(id) THEN 0 ELSE 1
    /\ (~skip_transcribe /\ pc = "export") =>
          \A id \in TranscribeSet :
             transCalls[id] = IF StartT(id).status = "ok" THEN 0 ELSE 1

\* C9 amended: as stated, except that in the transform phase an item whose
\* audio file is missing is not passed to the collaborator at all: it gets
\* the state error("Audio-Datei nicht gefunden") without a call.
C9_OncePerItemUnlessAudioMissing ==
    /\ \A id \in Keys : fetchCalls[id] <= 1 /\ transCalls[id] <= 1
    /\ FetchPhaseOver =>
          \A id \in Keys :
             fetchCalls[id] = IF StartFetchComplete(id) THEN 0 ELSE 1
    /\ (~skip_transcribe /\ pc = "export") =>
          \A id \in TranscribeSet :
             /\ transCalls[id] =
                   IF StartT(id).status = "ok" \/ downloaded[id].path \notin files
                      THEN 0 ELSE 1
             /\ (StartT(id).status # "ok" /\ downloaded[id].path \notin files)
                   => transcribed[id] =
                         [status |-> "error", error |-> AudioMissingMsg]

\* a transform phase has returned: the id that two entries share was
\* transcribed with one call, and an id whose audio file is missing got its
\* error without a call
C9_Witness ==
    /\ ~skip_transcribe
    /\ pc = "export"
    /\ \E id \in TranscribeSet :
          /\ Cardinality({k \in 1..Len(entries) : entries[k].vimeo_id = id}) = 2
          /\ transCalls[id] = 1
    /\ \E id \in TranscribeSet :
          /\ downloaded[id].path \notin files
          /\ transCalls[id] = 0
          /\ transcribed[id].status = "error"

(***************************************************************************)
(* C10  phases are sequential                                              *)
(***************************************************************************)

FetchAllHandled == \A id \in Keys : fetchLog[id].handled # "none"
TransformAllHandled == \A id \in TranscribeSet : transLog[id].handled # "none"

\* C10: within a run nothing of the transform phase (no call of
\* model.transcribe, no change of a TransformState) happens before
\* download_audio has handled its last item or was skipped, and the report
\* is written only after both phases have finished or were skipped.
C10_PhasesSequential ==
    /\ (\E id \in Keys : \/ transLog[id].handled # "none"
                         \/ transCalls[id] > 0
                         \/ transcribed[id] # StartT(id))
          => (skip_download \/ FetchAllHandled)
    /\ report # << >> =>
          /\ skip_download \/ FetchAllHandled
          /\ skip_transcribe \/ TransformAllHandled

\* a run with both phases has written its report after a transcription
C10_Witness ==
    /\ pc = "done"
    /\ ~skip_download
    /\ ~skip_transcribe
    /\ report # << >>
    /\ \E id \in Keys : fetchCalls[id] = 1 /\ transCalls[id] = 1

(***************************************************************************)
(* C11  the two phases walk the items in the same order                    *)
(***************************************************************************)

\* both loops of this run have taken the item up
InBothPhases(id) == fetchLog[id].pos > 0 /\ transLog[id].pos > 0

\* C11: any two items that both phases of a run take up are taken up in the
\* same relative order by download_audio and by transcribe_audio.
C11_SameOrderInBothPhases ==
    \A a \in Keys, b \in Keys :
        InBothPhases(a) /\ InBothPhases(b)
            => (fetchLog[a].pos < fetchLog[b].pos
                   <=> transLog[a].pos < transLog[b].pos)

(***************************************************************************)
(* C12  an entry without a Vimeo id                                        *)
(***************************************************************************)

\* the positions of the entries whose vimeo_id is None
NoKeyRows == {k \in 1..Len(entries) : entries[k].vimeo_id = None}

\* dict holds a record under the key id
HasEntry(dict, id) == id \in DOMAIN dict /\ dict[id] # Unset

\* C12: an entry whose vimeo_id is None is in neither loop (no call of
\* ydl.download or model.transcribe is made for it), no record is stored for
\* it in the progress dicts or in the progress file, and the report has its
\* own row for it, with status keine_vimeo_id.
C12_NoKeyNeverProcessed ==
    NoKeyRows # {} =>
        /\ \A m \in 1..Len(unique_ids) : unique_ids[m] # None
        /\ \A m \in 1..Len(ToTranscribe(downloaded)) :
              ToTranscribe(downloaded)[m] # None
        /\ \A id \in DOMAIN fetchCalls :
              id = None => fetchCalls[id] = 0 /\ transCalls[id] = 0
        /\ ~HasEntry(downloaded, None) /\ ~HasEntry(transcribed, None)
        /\ ~HasEntry(disk.content.downloaded, None)
        /\ ~HasEntry(disk.content.transcribed, None)
        /\ pc = "done" =>
              /\ Len(report) = Len(entries)
              /\ \A k \in NoKeyRows :
                    /\ report[k].order = entries[k].order
                    /\ report[k].link_typ = entries[k].link_typ
                    /\ report[k].url = entries[k].url
                    /\ report[k].status = "keine_vimeo_id"
                    /\ report[k].text = << >>

\* a run that downloaded and transcribed has reported the entry without id
C12_Witness ==
    /\ pc = "done"
    /\ NoKeyRows # {}
    /\ \E id \in Keys : fetchCalls[id] = 1 /\ transCalls[id] = 1
    /\ \E k \in NoKeyRows : report[k].status = "keine_vimeo_id"

(***************************************************************************)
(* C13  a run always ends with a complete report                           *)
(***************************************************************************)

\* one step of a running process whose saves succeed
RunStep ==
    \/ FetchItemSkip
    \/ FetchItem
    \/ FetchDone
    \/ TransformItemSkip
    \/ TransformItemNoAudio
    \/ TransformItem
    \/ TransformDone
    \/ Export

\* the runs in which nobody kills the process and save_progress does not
\* raise: downloads and transcriptions still fail item by item, the import
\* of a collaborator and the loading of the Whisper model still fail, and
\* audio files are still removed between runs
NextUnkilled ==
    \/ \E sd \in BOOLEAN, st \in BOOLEAN : StartRun(sd, st)
    \/ FetchSetupFails
    \/ FetchItemSkip
    \/ FetchItem
    \/ FetchDone
    \/ TransformSetupFails
    \/ TransformItemSkip
    \/ TransformItemNoAudio
    \/ TransformItem
    \/ TransformDone
    \/ Export
    \/ DeleteFile

\* main is one thread that runs each loop to its end: a running process
\* keeps taking steps (every collaborator call returns or raises); nothing
\* forces a phase setup to fail
FairSpec == Init /\ [][NextUnkilled]_vars /\ WF_vars(RunStep)

Statuses == {"keine_vimeo_id", "ok", "download_fehlgeschlagen",
             "transkription_fehlgeschlagen", "nicht_verarbeitet"}

\* the report has exactly one row per entry, in the order of the entries
ReportComplete ==
    /\ Len(report) = Len(entries)
    /\ \A k \in 1..Len(entries) :
          /\ report[k].order = entries[k].order
          /\ report[k].modul = entries[k].modul
          /\ report[k].bereich = entries[k].bereich
          /\ report[k].kategorie = entries[k].kategorie
          /\ report[k].uebung = entries[k].uebung
          /\ report[k].link_typ = entries[k].link_typ
          /\ report[k].url = entries[k].url
          /\ report[k].vimeo_id = entries[k].vimeo_id
          /\ report[k].status \in Statuses

\* C13 as stated: a run that has read the sheet (and is neither killed nor
\* hit by a failing save) always reaches export_results, whatever downloads
\* and transcriptions fail, and the report it writes has exactly one row
\* per entry, in entry order.  A run whose phase setup raises (import of
\* yt_dlp or faster_whisper, WhisperModel(...)) ends before export_results
\* and writes no report.
C13_RunEndsWithCompleteReport ==
    /\ [](pc = "done" => ReportComplete)
    /\ pc \in {"fetch", "transform", "export"}
          ~> (pc = "done" /\ ReportComplete)

(***************************************************************************)
(* C14  an error is retried once per run                                   *)
(***************************************************************************)

\* C14 as stated: an item whose download record is an error when the run
\* starts gets exactly one call of ydl.download in the download phase of the
\* run, and an item whose transcription record is an error, its download
\* record being ok, gets exactly one call of model.transcribe in the
\* transcription phase of the run.
C14_ErrorRetriedOncePerRun ==
    \A id \in Keys :
        /\ FetchPhaseOver /\ StartF(id).status = "error"
              => fetchCalls[id] = 1
        /\ TransformPhaseOver /\ StartT(id).status = "error"
                              /\ downloaded[id].status = "ok"
              => transCalls[id] = 1

\* C14 amended: the same, except that an item whose audio file is missing is
\* not passed to model.transcribe: its error is stored afresh without a call.
\* No item gets a second call within one run.
C14_ErrorRetriedOnceUnlessAudioMissing ==
    \A id \in Keys :
        /\ fetchCalls[id] <= 1
        /\ transCalls[id] <= 1
        /\ FetchPhaseOver /\ StartF(id).status = "error"
              => fetchCalls[id] = 1 /\ fetchLog[id].handled = "invoked"
        /\ TransformPhaseOver /\ StartT(id).status = "error"
                              /\ downloaded[id].status = "ok"
              => IF transLog[id].handled = "missing"
                    THEN /\ transCalls[id] = 0
                         /\ transcribed[id] =
                               [status |-> "error", error |-> AudioMissingMsg]
                    ELSE /\ transCalls[id] = 1
                         /\ transLog[id].handled = "invoked"

\* a run has retried a failed download and a failed transcription
C14_Witness ==
    /\ FetchPhaseOver
    /\ TransformPhaseOver
    /\ \E a \in Keys : StartF(a).status = "error" /\ fetchCalls[a] = 1
    /\ \E b \in Keys : /\ StartT(b).status = "error"
                       /\ downloaded[b].status = "ok"
                       /\ transCalls[b] = 1

(***************************************************************************)
(* C15  a finished transcription is never redone                           *)
(***************************************************************************)

\* C15: an item whose transcription record is ok in the progress file when a
\* run starts gets no call of model.transcribe in that run, and its record
\* (text, durations) stays what it was, in memory and in every progress file
\* the run writes; a record that becomes ok during a run stays as stored.
C15_TranscriptionKept ==
    \A id \in Keys :
        /\ StartT(id).status = "ok" =>
              /\ transCalls[id] = 0
              /\ transLog[id].handled \in {"none", "skipped"}
              /\ transcribed[id] = StartT(id)
              /\ disk.kind = "json" => disk.content.transcribed[id] = StartT(id)
        /\ transLog[id].handled = "invoked" /\ ~transLog[id].raised =>
              /\ transCalls[id] = 1
              /\ transcribed[id].status = "ok"
              /\ (disk.kind = "json" /\ id \in savedT)
                    => disk.content.transcribed[id] = transcribed[id]

\* a run has downloaded a transcribed item again, skipped it in the
\* transcription phase and saved the transcription of another item
C15_Witness ==
    /\ TransformPhaseOver
    /\ \E a \in Keys, b \in Keys :
          /\ StartT(a).status = "ok"
          /\ fetchCalls[a] = 1
          /\ transLog[a].handled = "skipped"
          /\ b \in savedT
          /\ transcribed[b].status = "ok"

(***************************************************************************)
(* C16  a failing save ends the run                                        *)
(***************************************************************************)

\* C16: after save_progress has raised in a loop the process is dead: no
\* item behind the one whose save failed has been taken up, the following
\* phase has not started, and no report has been written.
C16_SaveErrorIsFatal ==
    why.kind = "save" =>
        /\ pc = "crashed"
        /\ report = << >>
        /\ why.phase = "fetch" =>
              /\ fetchLog[unique_ids[i]].handled = "invoked"
              /\ \A id \in Keys :
                    /\ fetchLog[id].pos <= i
                    /\ transLog[id].pos = 0
                    /\ transCalls[id] = 0
                    /\ transcribed[id] = StartT(id)
        /\ why.phase = "transform" =>
              /\ transLog[CurrentT].handled = "invoked"
              /\ \A id \in Keys : transLog[id].pos <= i

\* the save after the first download failed while another item was waiting
C16_Witness ==
    /\ why.kind = "save"
    /\ why.phase = "fetch"
    /\ i < Len(unique_ids)
    /\ fetchCalls[unique_ids[i]] = 1
    /\ fetchLog[unique_ids[i + 1]].handled = "none"

(***************************************************************************)
(* C17  --skip-download and --skip-transcribe                              *)
(***************************************************************************)

\* C17: in a run with --skip-download ydl.download is never called; in a run
\* with --skip-transcribe model.transcribe is never called and every
\* transcription record stays what it was at the start, so that the report
\* gives nicht_verarbeitet to every entry whose id has no transcription
\* record and no download error.
C17_SkipDirectives ==
    /\ skip_download =>
          \A id \in Keys : fetchCalls[id] = 0 /\ fetchLog[id].pos = 0
    /\ skip_transcribe =>
          \A id \in Keys : /\ transCalls[id] = 0
                           /\ transLog[id].pos = 0
                           /\ transcribed[id] = StartT(id)
    /\ (pc = "done" /\ skip_transcribe) =>
          \A k \in 1..Len(entries) :
              LET vid == entries[k].vimeo_id
              IN  (/\ vid # None
                   /\ transcribed[vid] = Unset
                   /\ downloaded[vid].status # "error")
                      => report[k].status = "nicht_verarbeitet"

\* a run with both directives has reported a downloaded, untranscribed item
C17_Witness ==
    /\ pc = "done"
    /\ skip_download
    /\ skip_transcribe
    /\ \E k \in 1..Len(entries) :
          /\ entries[k].vimeo_id # None
          /\ downloaded[entries[k].vimeo_id].status = "ok"
          /\ StartF(entries[k].vimeo_id).status = "ok"
          /\ report[k].status = "nicht_verarbeitet"

(***************************************************************************)
(* C18  what makes a download a success                                    *)
(***************************************************************************)

\* C18 as stated: after ydl.download has been called for an item its record
\* is ok, with the expected path, exactly when the audio file exists at that
\* path after the call, and an error otherwise, whatever the call reported.
C18_OkIffFileExists ==
    \A id \in Keys :
        fetchLog[id].handled = "invoked" =>
            IF fetchLog[id].exists
              THEN downloaded[id] = [status |-> "ok", path |-> AudioPath(id)]
              ELSE downloaded[id].status = "error"

\* C18 amended: when the call returns, the record is ok with the expected
\* path exactly when the audio file exists at that path after the call
\* (the return value is not looked at), and the error "Datei nicht gefunden
\* nach Download" otherwise; when the call raises, the record is an error
\* with the message of the exception, even if the file exists.
C18_OkIffReturnedAndFileExists ==
    \A id \in Keys :
        fetchLog[id].handled = "invoked" =>
            IF fetchLog[id].raised
              THEN /\ downloaded[id].status = "error"
                   /\ downloaded[id].error \in ExMsgs
            ELSE IF fetchLog[id].exists
              THEN downloaded[id] = [status |-> "ok", path |-> AudioPath(id)]
            ELSE downloaded[id] = [status |-> "error", error |-> NoFileMsg]

\* one call returned and left no file, another raised although the file of
\* its item exists
C18_Witness ==
    \E a \in Keys, b \in Keys :
        /\ fetchLog[a].handled = "invoked"
        /\ ~fetchLog[a].raised
        /\ ~fetchLog[a].exists
        /\ fetchLog[b].handled = "invoked"
        /\ fetchLog[b].raised
        /\ fetchLog[b].exists

(***************************************************************************)
(* C20  what transcribe_audio requires of an item                          *)
(***************************************************************************)

\* the transcription loop is running or has just returned: the audio files
\* are those the loop saw
InOrAfterTransform == pc \in {"transform", "export"}

\* the process was killed inside model.transcribe of the item
KilledInTranscribe(id) ==
    /\ pc = "killed"
    /\ why = [kind |-> "between", phase |-> "transform"]
    /\ transLog[id].handled = "none"
    /\ ~TransformLoopOver(i, downloaded)
    /\ id = CurrentT

Cells == {None, Url9q, Url9, Url10, UrlCaps, UrlElse}

LinkCells == [kurz : Cells, lang : Cells]

\* the sheet of n data rows whose link cells are those of f
SheetOf(f, n) == [r \in 1..n |-> SheetRow(f[r], r)]

\* the input is any sheet of at most MaxRows data rows
RegistryInit ==
    /\ PipelineIdle
    /\ \E n \in 0..MaxRows : \E f \in [1..n -> LinkCells] : input = SheetOf(f, n)
    /\ regPc = "start"
    /\ regFirst = NotRead
    /\ regSecond = NotRead

\* read_excel and the unique_ids loop, on the sheet
ReadSheet ==
    /\ regPc = "start"
    /\ regFirst' = Registry(input)
    /\ regPc' = "read"
    /\ UNCHANGED <<pipeVars, input, regSecond>>

\* the same once more, on the same sheet
ReadSheetAgain ==
    /\ regPc = "read"
    /\ regSecond' = Registry(input)
    /\ regPc' = "reread"
    /\ UNCHANGED <<pipeVars, input, regFirst>>

RegistryNext == ReadSheet \/ ReadSheetAgain

RegistrySpec == RegistryInit /\ [][RegistryNext]_vars

\* the cell of data row r that link_typ typ is read from
Slot(r, typ) == IF typ = "kurz" THEN input[r].kurz ELSE input[r].lang

\* the first position of id v in the entries es
FirstSeen(es, v) ==
    CHOOSE k \in 1..Len(es) :
        /\ es[k].vimeo_id = v
        /\ \A m \in 1..(k - 1) : es[m].vimeo_id # v

\* C19: the entries read from a sheet hold exactly one entry for every cell
\* with the Vimeo marker, rows in sheet order and "kurz" before "lang"
\* within a row; every entry carries the Order and the text columns of
\* its row; a cell with the marker and no numeric id has its entry, with
\* vimeo_id None; the unique ids are the ids of the entries without
\* None, each once, in the order of their first entry; a second reading of
\* the same sheet gives the same entries and ids.
C19_RegistryOfRows ==
    regPc \in {"read", "reread"} =>
        LET es  == regFirst.entries
            ids == regFirst.ids
        IN  /\ \A k \in 1..Len(es) :
                  /\ es[k].row \in 2..(Len(input) + 1)
                  /\ es[k].link_typ \in {"kurz", "lang"}
                  /\ es[k].url = Strip(Slot(es[k].row - 1, es[k].link_typ))
                  /\ es[k].order = input[es[k].row - 1].order
                  /\ es[k].modul = CellStr(input[es[k].row - 1].modul)
                  /\ es[k].uebung = CellStr(input[es[k].row - 1].uebung)
                  /\ es[k].vimeo_id = extract_vimeo_id(es[k].url_clean)
            /\ \A r \in 1..Len(input), typ \in {"kurz", "lang"} :
                  Cardinality({k \in 1..Len(es) :
                                  es[k].row = r + 1 /\ es[k].link_typ = typ})
                     = IF IsVimeoCell(Slot(r, typ)) THEN 1 ELSE 0
            /\ \A r \in 1..Len(input), typ \in {"kurz", "lang"} :
                  Slot(r, typ) = UrlCaps =>
                     \E k \in 1..Len(es) : /\ es[k].row = r + 1
                                           /\ es[k].link_typ = typ
                                           /\ es[k].vimeo_id = None
            /\ \A j \in 1..Len(es), k \in 1..Len(es) :
                  j < k => \/ es[j].row < es[k].row
                           \/ /\ es[j].row = es[k].row
                              /\ es[j].link_typ = "kurz"
                              /\ es[k].link_typ = "lang"
            /\ \A a \in 1..Len(ids), b \in 1..Len(ids) :
                  a # b => ids[a] # ids[b]
            /\ {ids[a] : a \in 1..Len(ids)}
                  = {es[k].vimeo_id : k \in 1..Len(es)} \ {None}
            /\ \A a \in 1..Len(ids), b \in 1..Len(ids) :
                  a < b => FirstSeen(es, ids[a]) < FirstSeen(es, ids[b])
            /\ regPc = "reread" => regSecond = regFirst

\* a sheet with one id in both cells of a row, a second id and a link
\* without id has been read twice
C19_Witness ==
    /\ regPc = "reread"
    /\ Len(regFirst.ids) = 2
    /\ Len(regFirst.entries) = 4
    /\ \E k \in 1..Len(regFirst.entries) : regFirst.entries[k].vimeo_id = None
    /\ \E j \in 1..Len(regFirst.entries), k \in 1..Len(regFirst.entries) :
          /\ j < k
          /\ regFirst.entries[j].row = regFirst.entries[k].row
          /\ regFirst.entries[j].vimeo_id = regFirst.entries[k].vimeo_id
          /\ regFirst.entries[j].vimeo_id # None

(***************************************************************************)
(* C21  --skip-download: the scan of the audio directory                   *)
(***************************************************************************)

\* the runs in which nobody kills the process and save_progress does not
\* raise, the process being started up to MaxPlainRuns times
PlainNext ==
    \/ \E sd \in BOOLEAN, st \in BOOLEAN : StartRunWithin(MaxPlainRuns, sd, st)
    \/ FetchSetupFails
    \/ FetchItemSkip
    \/ FetchItem
    \/ FetchDone
    \/ TransformSetupFails
    \/ TransformItemSkip
    \/ TransformItemNoAudio
    \/ TransformItem
    \/ TransformDone
    \/ Export
    \/ DeleteFileWithin(MaxPlainRuns)

PlainSpec == Init /\ [][PlainNext]_vars

\* the download record of id is an error in the progress file the run loaded
StartFetchError(id) == StartF(id).status = "error"

\* what the scan makes of the loaded dict: records are kept, and an id
\* without record gets an ok record exactly when its .mp3 is there
ScanKeepsRecords ==
    \A id \in Keys :
        /\ StartF(id) # Unset => downloaded[id] = StartF(id)
        /\ StartF(id) = Unset =>
              downloaded[id] = IF AudioPath(id) \in start.files
                                  THEN [status |-> "ok", path |-> AudioPath(id)]
                                  ELSE Unset

\* an item whose loaded download record is an error is not transcribed
ErrorNotTranscribed ==
    \A id \in Keys :
        StartFetchError(id) =>
            /\ transCalls[id] = 0
            /\ transLog[id].handled = "none"
            /\ transcribed[id] = StartT(id)

\* a run with --skip-download that has loaded the progress file
SkippedDownload == skip_download /\ why.kind # "load"

\* C21 as stated: in a run with --skip-download the scan only adds ok
\* records for ids without record and overwrites none, so an item whose
\* record is an error keeps it, is not transcribed in the run and is
\* reported as download_fehlgeschlagen, even if its audio file is there.
C21_ScanKeepsErrorReportedFailed ==
    SkippedDownload =>
        /\ ScanKeepsRecords
        /\ ErrorNotTranscribed
        /\ pc = "done" =>
              \A k \in 1..Len(entries) :
                  (entries[k].vimeo_id # None
                     /\ StartFetchError(entries[k].vimeo_id))
                      => report[k].status = "download_fehlgeschlagen"

\* C21 amended: the same, except that the item is reported as ok, with its
\* transcript, when an earlier run has stored an ok transcription for it.
C21_ScanKeepsErrorReportedUnlessTranscribed ==
    SkippedDownload =>
        /\ ScanKeepsRecords
        /\ ErrorNotTranscribed
        /\ pc = "done" =>
              \A k \in 1..Len(entries) :
                  LET vid == entries[k].vimeo_id
                  IN  (vid # None /\ StartFetchError(vid)) =>
                         IF StartT(vid).status = "ok"
                           THEN /\ report[k].status = "ok"
                                /\ report[k].text = <<StartT(vid).text>>
                           ELSE /\ report[k].status = "download_fehlgeschlagen"
                                /\ report[k].text = ErrorText(StartF(vid))

\* a run with --skip-download and the transcription phase has reported an
\* item whose download record is an error and whose audio file is there
C21_Witness ==
    /\ pc = "done"
    /\ skip_download
    /\ ~skip_transcribe
    /\ \E k \in 1..Len(entries) :
          LET vid == entries[k].vimeo_id
          IN  /\ vid # None
              /\ StartFetchError(vid)
              /\ AudioPath(vid) \in start.files
              /\ AudioPath(vid) \in files
              /\ report[k].status = "download_fehlgeschlagen"

====
